---- MODULE Spec2Model ----
(***************************************************************************)
(* The Broadcaster Durable Object of the meetup server                     *)
(* (src/unnamed/part_001): the set of accepted WebSockets, the activity    *)
(* clock, the persisted meetup start time and the auto-shutdown alarm.     *)
(*                                                                         *)
(* Time is counted in ticks of 15 minutes: the 30 minute alarm period is   *)
(* 2 ticks and the 2 hour idle timeout is 8 ticks.                         *)
(*                                                                         *)
(* Spec is the Broadcaster with each handler as one step; AsyncSpec splits *)
(* the '/broadcast' handler at its await; RouteSpec is the routing layer   *)
(* (src/server/src/index.ts): add-user, add-avatar and remove-user.        *)
(***************************************************************************)
EXTENDS Integers, Sequences, FiniteSets, TLC

\* ---- bounds of the model
MaxTime == 12
MaxConns == 2
MaxPending == 2
MaxDids == 2

\* ---- program constants, in ticks of 15 minutes
AlarmPeriod == 2
IdleThreshold == 8

\* storage.get() of a key never put is undefined; if (stored) takes 0 for it too
Absent == 0
Handles == 1..MaxConns
EventNames == {"user-joined", "user-left"}

\* did:key identifiers; the identifier is the holder's public key
DIDs == 1..MaxDids

VARIABLES
  now,              \* Date.now()
  inst,             \* the instance: "evicted" (not in memory), "init", "ready"
  lastActivity,     \* this.lastActivity (0 while no instance is in memory)
  meetupStartTime,  \* this.meetupStartTime (0 while no instance is in memory)
  storage,          \* ctx.storage, key 'meetupStartTime': a time, or Absent
  alarms,           \* the alarm times pending in ctx.storage
  sockets,          \* ctx.getWebSockets(): the accepted, still attached sockets
  lastEvent,        \* what the last step did (observation only)
  lastInbound,      \* time of the last connect, disconnect or broadcast (observation only)
  quiet,            \* TRUE once no further external event will arrive
  pending,          \* '/broadcast' requests inside await request.json(), in arrival order
  outOfOrder,       \* sockets the last broadcast reached after a later request's (observation only)
  users,            \* the users table of the D1 database, by DID
  req               \* the routing layer's request in flight

vars == <<now, inst, lastActivity, meetupStartTime, storage, alarms, sockets,
          lastEvent, lastInbound, quiet, pending, outOfOrder, users, req>>

\* the state of the Broadcaster
coordinatorVars == <<now, inst, lastActivity, meetupStartTime, storage, alarms,
                     sockets, lastEvent, lastInbound, quiet, pending, outOfOrder>>

\* the state of the routing layer
routeVars == <<users, req>>

NoSends == [h \in Handles |-> 0]

NoEvent ==
  [op |-> "none", ws |-> 0, count |-> 0, idle |-> 0, throws |-> {},
   sent |-> NoSends, msg |-> "", status |-> 0, ended |-> FALSE]

Ev(op) == [NoEvent EXCEPT !.op = op]

AlarmDue == \E t \in alarms : t <= now

\* events reaching the instance while the constructor's storage read is in flight
eventsDeliveredDuringInit == inst \in {"init", "ready"}

\* ctx.blockConcurrencyWhile: the runtime delivers no event (request, socket
\* event, alarm) to the instance until the constructor's callback has ended
eventsDelivered == inst = "ready"

\* The sockets of a set in the order getWebSockets() lists them.
RECURSIVE SetToSeq(_)
SetToSeq(S) ==
  IF S = {} THEN <<>>
  ELSE LET m == CHOOSE x \in S : \A y \in S : x <= y
       IN <<m>> \o SetToSeq(S \ {m})

\* forEach without the try/catch around send: the first throw ends the loop
RECURSIVE forEachSendUncaught(_, _, _)
forEachSendUncaught(connections, throws, acc) ==
  IF connections = <<>> THEN acc
  ELSE LET ws == Head(connections)
       IN IF ws \in throws THEN acc
          ELSE forEachSendUncaught(Tail(connections), throws,
                                   [acc EXCEPT ![ws] = @ + 1])

\* connections.forEach((ws) => { try { ws.send(message) } catch { log } })
RECURSIVE forEachSend(_, _, _)
forEachSend(connections, throws, acc) ==
  IF connections = <<>> THEN acc
  ELSE LET ws == Head(connections)
       IN forEachSend(Tail(connections), throws,
                      IF ws \in throws THEN acc ELSE [acc EXCEPT ![ws] = @ + 1])

\* broadcast(event, data): one send per listed socket
broadcast(connections, throws) == forEachSend(SetToSeq(connections), throws, NoSends)

\* scheduleAlarm keeping the alarms already pending (a timer per call)
scheduleAlarmAccumulating == alarms \cup {now + AlarmPeriod}

\* scheduleAlarm with a check sooner than the period
scheduleAlarmSooner == {now + AlarmPeriod - 1}

\* scheduleAlarm without the setAlarm call
scheduleAlarmNothing == alarms

\* scheduleAlarm(): storage.setAlarm(Date.now() + 30 min) replaces the pending alarm
scheduleAlarm == {now + AlarmPeriod}

\* the idle-timeout test with >= for >
idleTimeoutInclusive(connectionCount, idleTime) ==
  connectionCount = 0 /\ idleTime >= IdleThreshold

\* the idle-timeout test without the connection count
idleTimeoutAnyCount(connectionCount, idleTime) == idleTime > IdleThreshold

\* the idle-timeout test of alarm()
idleTimeout(connectionCount, idleTime) ==
  connectionCount = 0 /\ idleTime > IdleThreshold

\* webSocketClose() scheduling whatever the count
alwaysSchedule(connectionCount) == TRUE

\* the test of webSocketClose() that decides whether to schedule
noMoreConnections(connectionCount) == connectionCount = 0

\* the callback putting the constructor's time whatever is stored
initStorageOverwrite(stored) == meetupStartTime

\* blockConcurrencyWhile callback: the value left under 'meetupStartTime'
initStorage(stored) == IF stored # Absent THEN stored ELSE meetupStartTime

\* blockConcurrencyWhile callback: the value left in this.meetupStartTime
initStartTime(stored) == IF stored # Absent THEN stored ELSE meetupStartTime

\* no row for the DID in the users table
NoUser == "none"

\* a signed assertion: the key that signed it, the iss it names (0: no
\* did:key), data.did, whether data.avatar is there, whether exp has passed
Tokens ==
  [signer : DIDs, iss : DIDs \cup {0}, did : DIDs, avatar : BOOLEAN,
   expired : BOOLEAN]

\* the body of a request without profileJwt or avatarJwt
NoToken == [signer |-> 0, iss |-> 0, did |-> 0, avatar |-> FALSE, expired |-> FALSE]

\* no request in the routing layer
NoRequest ==
  [pc |-> "idle", route |-> "none", token |-> NoToken,
   persistFailed |-> FALSE, notifyFailed |-> FALSE, did |-> 0, steps |-> <<>>,
   notified |-> "", status |-> 0, body |-> [did |-> 0, user |-> ""],
   before |-> [d \in DIDs |-> NoUser]]

Init ==
  /\ now = 1
  /\ inst = "evicted"
  /\ lastActivity = 0
  /\ meetupStartTime = 0
  /\ storage = Absent
  /\ alarms = {}
  /\ sockets = {}
  /\ lastEvent = NoEvent
  /\ lastInbound = 0
  /\ quiet = FALSE
  /\ pending = <<>>
  /\ outOfOrder = {}
  /\ users = [d \in DIDs |-> NoUser]
  /\ req = NoRequest

\* Time passes. A due alarm is delivered before time moves on, and the
\* constructor's storage round trip and the reading of a request body end
\* within the tick they began in.
Tick ==
  /\ now < MaxTime
  /\ ~AlarmDue
  /\ inst # "init"
  /\ pending = <<>>
  /\ now' = now + 1
  /\ lastEvent' = Ev("tick")
  /\ UNCHANGED <<inst, lastActivity, meetupStartTime, storage, alarms, sockets,
                 lastInbound, quiet>>
  /\ UNCHANGED <<pending, outOfOrder, users, req>>

\* The runtime drops the idle instance from memory; sockets, storage and
\* alarm stay with the runtime. An instance with a request in flight stays.
Evict ==
  /\ inst = "ready"
  /\ ~AlarmDue
  /\ pending = <<>>
  /\ inst' = "evicted"
  /\ lastActivity' = 0
  /\ meetupStartTime' = 0
  /\ lastEvent' = Ev("evict")
  /\ UNCHANGED <<now, storage, alarms, sockets, lastInbound, quiet>>
  /\ UNCHANGED <<pending, outOfOrder, users, req>>

\* From here on no request, socket event or message arrives.
Quiesce ==
  /\ ~quiet
  /\ quiet' = TRUE
  /\ lastEvent' = Ev("quiesce")
  /\ UNCHANGED <<now, inst, lastActivity, meetupStartTime, storage, alarms,
                 sockets, lastInbound>>
  /\ UNCHANGED <<pending, outOfOrder, users, req>>

\* constructor, up to the call of blockConcurrencyWhile: run when an event
\* (a request, a socket event, a due alarm) reaches an instance not in memory
constructor ==
  /\ inst = "evicted"
  /\ ~quiet \/ AlarmDue
  /\ inst' = "init"
  /\ lastActivity' = now
  /\ meetupStartTime' = now
  /\ lastEvent' = Ev("constructor")
  /\ UNCHANGED <<now, storage, alarms, sockets, lastInbound, quiet>>
  /\ UNCHANGED <<pending, outOfOrder, users, req>>

\* the callback of blockConcurrencyWhile; no event is delivered before it ends
blockConcurrencyWhile ==
  /\ inst = "init"
  /\ LET stored == storage
     IN /\ meetupStartTime' = initStartTime(stored)
        /\ storage' = initStorage(stored)
  /\ inst' = "ready"
  /\ lastEvent' = Ev("init")
  /\ UNCHANGED <<now, lastActivity, alarms, sockets, lastInbound, quiet>>
  /\ UNCHANGED <<pending, outOfOrder, users, req>>

\* handleWebSocket without the try/catch around send: a throw ends the handler
handleWebSocketUncaught(ws, sendThrows) ==
  /\ eventsDelivered /\ ~quiet
  /\ ws \notin sockets
  /\ sockets' = sockets \cup {ws}
  /\ lastActivity' = now
  /\ LET connectionCount == Cardinality(sockets')
     IN lastEvent' = [Ev("connect") EXCEPT
                        !.ws = ws, !.count = connectionCount,
                        !.throws = IF sendThrows THEN {ws} ELSE {},
                        !.sent = IF sendThrows THEN NoSends
                                 ELSE [NoSends EXCEPT ![ws] = 1],
                        !.msg = "connected", !.status = 101]
  /\ alarms' = IF sendThrows THEN alarms ELSE scheduleAlarm
  /\ lastInbound' = now
  /\ UNCHANGED <<now, inst, meetupStartTime, storage, quiet>>
  /\ UNCHANGED <<pending, outOfOrder, users, req>>

\* fetch('/ws') with Upgrade: websocket, and handleWebSocket(server)
handleWebSocket(ws, sendThrows) ==
  /\ eventsDelivered /\ ~quiet
  /\ ws \notin sockets
  /\ sockets' = sockets \cup {ws}
  /\ lastActivity' = now
  /\ LET connectionCount == Cardinality(sockets')
     IN lastEvent' = [Ev("connect") EXCEPT
                        !.ws = ws, !.count = connectionCount,
                        !.throws = IF sendThrows THEN {ws} ELSE {},
                        !.sent = IF sendThrows THEN NoSends
                                 ELSE [NoSends EXCEPT ![ws] = 1],
                        !.msg = "connected", !.status = 101]
  /\ alarms' = scheduleAlarm
  /\ lastInbound' = now
  /\ UNCHANGED <<now, inst, meetupStartTime, storage, quiet>>
  /\ UNCHANGED <<pending, outOfOrder, users, req>>

\* fetch of '/ws' without the Upgrade header (426) or of an unknown path (404)
fetchOther(status) ==
  /\ eventsDelivered /\ ~quiet
  /\ lastEvent' = [Ev("fetch") EXCEPT !.status = status]
  /\ UNCHANGED <<now, inst, lastActivity, meetupStartTime, storage, alarms,
                 sockets, lastInbound, quiet>>
  /\ UNCHANGED <<pending, outOfOrder, users, req>>

webSocketMessage(ws) ==
  /\ eventsDelivered /\ ~quiet
  /\ ws \in sockets
  /\ lastActivity' = now
  /\ lastEvent' = [Ev("message") EXCEPT !.ws = ws]
  /\ UNCHANGED <<now, inst, meetupStartTime, storage, alarms, sockets,
                 lastInbound, quiet>>
  /\ UNCHANGED <<pending, outOfOrder, users, req>>

\* webSocketClose(ws, ...). The runtime detaches ws; whether getWebSockets()
\* still lists ws while the handler runs is the runtime's choice (listed).
webSocketClose(ws, listed) ==
  /\ eventsDelivered /\ ~quiet
  /\ ws \in sockets
  /\ sockets' = sockets \ {ws}
  /\ lastActivity' = now
  /\ LET connectionCount == Cardinality(IF listed THEN sockets ELSE sockets')
     IN /\ lastEvent' = [Ev("close") EXCEPT !.ws = ws, !.count = connectionCount]
        /\ alarms' = IF noMoreConnections(connectionCount) THEN scheduleAlarm
                     ELSE alarms
  /\ lastInbound' = now
  /\ pending' = [i \in DOMAIN pending |->
                   [pending[i] EXCEPT !.overtaken = @ \ {ws}]]
  /\ UNCHANGED <<now, inst, meetupStartTime, storage, quiet>>
  /\ UNCHANGED <<outOfOrder, users, req>>

webSocketError(ws) ==
  /\ eventsDelivered /\ ~quiet
  /\ ws \in sockets
  /\ lastEvent' = [Ev("error") EXCEPT !.ws = ws]
  /\ UNCHANGED <<now, inst, lastActivity, meetupStartTime, storage, alarms,
                 sockets, lastInbound, quiet>>
  /\ UNCHANGED <<pending, outOfOrder, users, req>>

\* '/broadcast' that drops the sockets whose send threw
fetchBroadcastDropping(event, valid, throws) ==
  /\ eventsDelivered /\ ~quiet
  /\ IF valid
     THEN /\ lastEvent' = [Ev("broadcast") EXCEPT
                             !.count = Cardinality(sockets), !.throws = throws,
                             !.sent = broadcast(sockets, throws),
                             !.msg = event, !.status = 200]
          /\ lastInbound' = now
          /\ sockets' = sockets \ throws
     ELSE /\ lastEvent' = [Ev("badrequest") EXCEPT !.status = 400]
          /\ UNCHANGED <<lastInbound, sockets>>
  /\ UNCHANGED <<now, inst, lastActivity, meetupStartTime, storage, alarms,
                 quiet>>
  /\ UNCHANGED <<pending, outOfOrder, users, req>>

\* fetch POST '/broadcast': body parsed, broadcast(event, data), 'OK';
\* a body that does not parse is answered 400
fetchBroadcast(event, valid, throws) ==
  /\ eventsDelivered /\ ~quiet
  /\ IF valid
     THEN /\ lastEvent' = [Ev("broadcast") EXCEPT
                             !.count = Cardinality(sockets), !.throws = throws,
                             !.sent = broadcast(sockets, throws),
                             !.msg = event, !.status = 200]
          /\ lastInbound' = now
     ELSE /\ lastEvent' = [Ev("badrequest") EXCEPT !.status = 400]
          /\ UNCHANGED lastInbound
  /\ UNCHANGED <<now, inst, lastActivity, meetupStartTime, storage, alarms,
                 sockets, quiet>>
  /\ UNCHANGED <<pending, outOfOrder, users, req>>

\* pending without its i-th request; the requests that arrived before it and
\* are still being read note the sockets that have now been sent a later message
RemoveAt(i, reached) ==
  [j \in 1..(Len(pending) - 1) |->
     IF j < i THEN [pending[j] EXCEPT !.overtaken = @ \cup reached]
     ELSE pending[j + 1]]

\* fetch POST '/broadcast', up to await request.json(): the handler waits for
\* the body; the wait is no storage operation, so other events are delivered
fetchBroadcastArrives(event) ==
  /\ eventsDelivered /\ ~quiet
  /\ Len(pending) < MaxPending
  /\ pending' = Append(pending, [event |-> event, overtaken |-> {}])
  /\ lastEvent' = Ev("arrive")
  /\ UNCHANGED <<now, inst, lastActivity, meetupStartTime, storage, alarms,
                 sockets, lastInbound, quiet, outOfOrder>>
  /\ UNCHANGED routeVars

\* fetch POST '/broadcast', from the end of await request.json(): the body of
\* any waiting request may be the next one read; broadcast(event, data), 'OK';
\* a body that does not parse is answered 400
fetchBroadcastParsed(i, valid, throws) ==
  /\ eventsDelivered
  /\ i \in DOMAIN pending
  /\ IF valid
     THEN /\ lastEvent' = [Ev("broadcast") EXCEPT
                             !.count = Cardinality(sockets), !.throws = throws,
                             !.sent = broadcast(sockets, throws),
                             !.msg = pending[i].event, !.status = 200]
          /\ lastInbound' = now
          /\ outOfOrder' = (sockets \ throws) \cap pending[i].overtaken
          /\ pending' = RemoveAt(i, sockets \ throws)
     ELSE /\ lastEvent' = [Ev("badrequest") EXCEPT !.status = 400]
          /\ outOfOrder' = {}
          /\ pending' = RemoveAt(i, {})
          /\ UNCHANGED lastInbound
  /\ UNCHANGED <<now, inst, lastActivity, meetupStartTime, storage, alarms,
                 sockets, quiet>>
  /\ UNCHANGED routeVars

\* alarm() that counts its own firing as activity
alarmCountsAsActivity ==
  /\ eventsDelivered
  /\ AlarmDue
  /\ LET idleTime == now - lastActivity
         connectionCount == Cardinality(sockets)
     IN IF idleTimeout(connectionCount, idleTime)
        THEN /\ lastEvent' = [Ev("alarm") EXCEPT
                                !.count = connectionCount, !.idle = idleTime,
                                !.sent = broadcast(sockets, {}),
                                !.msg = "meetup-ended", !.ended = TRUE]
             /\ storage' = Absent
             /\ alarms' = {}
             /\ UNCHANGED lastActivity
        ELSE /\ lastEvent' = [Ev("alarm") EXCEPT
                                !.count = connectionCount, !.idle = idleTime]
             /\ alarms' = scheduleAlarm
             /\ lastActivity' = now
             /\ UNCHANGED storage
  /\ UNCHANGED <<now, inst, meetupStartTime, sockets, lastInbound, quiet>>
  /\ UNCHANGED <<pending, outOfOrder, users, req>>

\* alarm(): the runtime delivers the due alarm, which leaves the schedule
alarm ==
  /\ eventsDelivered
  /\ AlarmDue
  /\ LET idleTime == now - lastActivity
         connectionCount == Cardinality(sockets)
     IN IF idleTimeout(connectionCount, idleTime)
        THEN /\ lastEvent' = [Ev("alarm") EXCEPT
                                !.count = connectionCount, !.idle = idleTime,
                                !.sent = broadcast(sockets, {}),
                                !.msg = "meetup-ended", !.ended = TRUE]
             /\ storage' = Absent
             /\ alarms' = {}
        ELSE /\ lastEvent' = [Ev("alarm") EXCEPT
                                !.count = connectionCount, !.idle = idleTime]
             /\ alarms' = scheduleAlarm
             /\ UNCHANGED storage
  /\ UNCHANGED <<now, inst, lastActivity, meetupStartTime, sockets, lastInbound, quiet>>
  /\ UNCHANGED <<pending, outOfOrder, users, req>>

\* ------------------------------------------------------------------------
\* The routing layer: POST /api/add-user, POST /api/add-avatar and
\* DELETE /api/remove-user, one request at a time
\* ------------------------------------------------------------------------
Routes == {"add-user", "add-avatar", "remove-user"}

\* decodeAndVerifyJWT(jwt): the token is not expired, iss is a did:key, and
\* the signature verifies under the key iss resolves to; data is not examined
decodeAndVerifyJWT(token) ==
  /\ ~token.expired
  /\ token.iss \in DIDs
  /\ token.signer = token.iss

\* UserModel.addOrUpdateUser: the profile, keeping the avatar of an existing row
addOrUpdateUser(table, did) ==
  [table EXCEPT ![did] = IF @ \in {"avatar", "both"} THEN "both" ELSE "profile"]

\* UserModel.addOrUpdateUserAvatar: the avatar, on a row created if there is none
addOrUpdateUserAvatar(table, did) ==
  [table EXCEPT ![did] = IF @ \in {"profile", "both"} THEN "both" ELSE "avatar"]

\* UserModel.deleteUserByDID
deleteUserByDID(table, did) == [table EXCEPT ![did] = NoUser]

\* the DID the route hands to UserModel: add-user takes it from data,
\* add-avatar and remove-user from iss
routeDid(route, token) ==
  IF route = "add-user" THEN token.did ELSE token.iss

\* the UserModel call of the route
persist(route, table, did) ==
  CASE route = "add-user" -> addOrUpdateUser(table, did)
    [] route = "add-avatar" -> addOrUpdateUserAvatar(table, did)
    [] OTHER -> deleteUserByDID(table, did)

\* the event the route hands to notifyDO
routeEvent(route) == IF route = "remove-user" THEN "user-left" ELSE "user-joined"

\* the body of the route's c.json() on success
routeBody(route, table, did) ==
  [did |-> did, user |-> IF route = "remove-user" THEN "success" ELSE table[did]]

\* the route answering with an error status
respondError(status) ==
  [req EXCEPT !.pc = "done", !.status = status, !.body = [did |-> 0, user |-> "error"]]

\* a request reaches one of the three routes
routeRequest(route, token) ==
  /\ req.pc \in {"idle", "done"}
  /\ req' = [NoRequest EXCEPT
               !.pc = "received", !.route = route, !.token = token,
               !.before = users]
  /\ UNCHANGED users
  /\ UNCHANGED coordinatorVars

\* the body read, the missing-token test, decodeAndVerifyJWT and the
\* extraction of did (and avatar); a throw is answered 500 by the catch
routeVerify ==
  /\ req.pc = "received"
  /\ req' = IF req.token = NoToken THEN respondError(400)
            ELSE IF ~decodeAndVerifyJWT(req.token) THEN respondError(500)
            ELSE IF req.route = "add-avatar" /\ ~req.token.avatar
                 THEN respondError(400)
            ELSE [req EXCEPT !.pc = "verified",
                             !.did = routeDid(req.route, req.token),
                             !.steps = Append(@, "verify")]
  /\ UNCHANGED users
  /\ UNCHANGED coordinatorVars

\* the UserModel call writing its row before it throws
routePersistThenThrow(ok) ==
  /\ req.pc = "verified"
  /\ users' = persist(req.route, users, req.did)
  /\ req' = IF ok
            THEN [req EXCEPT !.pc = "persisted", !.steps = Append(@, "persist")]
            ELSE [respondError(500) EXCEPT !.persistFailed = TRUE]
  /\ UNCHANGED coordinatorVars

\* createDb and the UserModel call; a database error throws with the table
\* as it was and is answered 500 by the catch
routePersist(ok) ==
  /\ req.pc = "verified"
  /\ IF ok
     THEN /\ users' = persist(req.route, users, req.did)
          /\ req' = [req EXCEPT !.pc = "persisted", !.steps = Append(@, "persist")]
     ELSE /\ req' = [respondError(500) EXCEPT !.persistFailed = TRUE]
          /\ UNCHANGED users
  /\ UNCHANGED coordinatorVars

\* notifyDO without its try/catch: the throw reaches the catch of the route
routeNotifyUncaught(ok) ==
  /\ req.pc = "persisted"
  /\ req' = IF ok
            THEN [req EXCEPT !.pc = "notified", !.steps = Append(@, "broadcast"),
                             !.notified = routeEvent(req.route)]
            ELSE [respondError(500) EXCEPT !.steps = Append(@, "broadcast"),
                                           !.notifyFailed = TRUE]
  /\ UNCHANGED users
  /\ UNCHANGED coordinatorVars

\* await notifyDO(c, event, data): stub.fetch('/broadcast'); a throw is
\* caught and logged inside notifyDO
routeNotify(ok) ==
  /\ req.pc = "persisted"
  /\ req' = [req EXCEPT !.pc = "notified", !.steps = Append(@, "broadcast"),
                        !.notified = IF ok THEN routeEvent(req.route) ELSE "",
                        !.notifyFailed = ~ok]
  /\ UNCHANGED users
  /\ UNCHANGED coordinatorVars

\* return c.json(user), or c.json({ success: true, did })
routeRespond ==
  /\ req.pc = "notified"
  /\ req' = [req EXCEPT !.pc = "done", !.status = 200,
                        !.body = routeBody(req.route, users, req.did)]
  /\ UNCHANGED users
  /\ UNCHANGED coordinatorVars

NextRoute ==
  \/ \E route \in Routes, token \in Tokens \cup {NoToken} :
        routeRequest(route, token)
  \/ routeVerify
  \/ \E ok \in BOOLEAN : routePersist(ok)
  \/ \E ok \in BOOLEAN : routeNotify(ok)
  \/ routeRespond

RouteSpec == Init /\ [][NextRoute]_vars

Next ==
  \/ Tick
  \/ Evict
  \/ Quiesce
  \/ constructor
  \/ blockConcurrencyWhile
  \/ \E ws \in Handles, sendThrows \in BOOLEAN : handleWebSocket(ws, sendThrows)
  \/ \E status \in {404, 426} : fetchOther(status)
  \/ \E ws \in Handles : webSocketMessage(ws)
  \/ \E ws \in Handles, listed \in BOOLEAN : webSocketClose(ws, listed)
  \/ \E ws \in Handles : webSocketError(ws)
  \/ \E event \in EventNames, valid \in BOOLEAN, throws \in SUBSET sockets :
        fetchBroadcast(event, valid, throws)
  \/ alarm

Spec == Init /\ [][Next]_vars

\* The coordinator with the '/broadcast' handler in its two parts, before and
\* after await request.json()
NextAsync ==
  \/ Tick
  \/ Evict
  \/ constructor
  \/ blockConcurrencyWhile
  \/ \E ws \in Handles, sendThrows \in BOOLEAN : handleWebSocket(ws, sendThrows)
  \/ \E ws \in Handles, listed \in BOOLEAN : webSocketClose(ws, listed)
  \/ \E event \in EventNames : fetchBroadcastArrives(event)
  \/ \E i \in 1..MaxPending, valid \in BOOLEAN, throws \in SUBSET sockets :
        fetchBroadcastParsed(i, valid, throws)
  \/ alarm

AsyncSpec == Init /\ [][NextAsync]_vars

\* Time advances, a due alarm is delivered, and the instance needed to
\* deliver it is constructed and initialized.
FairSpec ==
  /\ Spec
  /\ WF_vars(Tick)
  /\ WF_vars(constructor)
  /\ WF_vars(blockConcurrencyWhile)
  /\ WF_vars(alarm)

\* ------------------------------------------------------------------------
\* Properties
\* ------------------------------------------------------------------------

\* C1: a broadcast request sends to every listed socket: whatever subset of
\* sockets throws on send, every other listed socket gets the message exactly
\* once, no other handle gets anything, and the request is answered OK.
C1_BroadcastReachesEveryHealthySocket ==
  lastEvent.op = "broadcast" =>
    /\ lastEvent.status = 200
    /\ \A h \in Handles :
         lastEvent.sent[h] = IF h \in sockets /\ h \notin lastEvent.throws THEN 1 ELSE 0

C1_Witness ==
  /\ lastEvent.op = "broadcast"
  /\ Cardinality(sockets) >= 2
  /\ lastEvent.throws # {}
  /\ \E h \in sockets : h \notin lastEvent.throws /\ lastEvent.sent[h] = 1
  /\ \E h \in lastEvent.throws : \E g \in sockets : g > h /\ g \notin lastEvent.throws

\* C2: the stored start time is cleared only by an alarm that finds no socket
\* and an idle time above the threshold; every other step, and an alarm with a
\* socket attached or with idle time at or below the threshold, leaves it.
C2_OnlyIdleAlarmClearsStorage ==
  [][storage # Absent /\ storage' = Absent =>
       /\ lastEvent'.op = "alarm"
       /\ sockets = {}
       /\ now - lastActivity > IdleThreshold]_vars

C2_Witness ==
  /\ lastEvent.op = "alarm"
  /\ lastEvent.count = 0
  /\ lastEvent.idle = IdleThreshold
  /\ storage # Absent

\* C3: an alarm that finds no socket more than the threshold after the last
\* connect, disconnect or broadcast ends the session: meetup-ended is
\* broadcast and the stored start time is cleared.
C3_IdleAlarmEndsSession ==
  [][(/\ lastEvent'.op = "alarm"
      /\ sockets = {}
      /\ lastInbound > 0
      /\ now - lastInbound > IdleThreshold)
     => (storage' = Absent /\ lastEvent'.ended /\ lastEvent'.msg = "meetup-ended")]_vars

\* C4: once the session is initialized (a connect or a broadcast has been
\* served), no socket is attached and no further event arrives, the stored
\* start time is eventually cleared. With no event arriving only a pending
\* alarm can run the instance again, so until the start time is cleared an
\* alarm must be pending.
C4_QuietSessionKeepsAlarmUntilEnded ==
  ( /\ quiet
    /\ lastInbound > 0
    /\ sockets = {}
    /\ storage # Absent )
  => alarms # {}

\* C5: the stored start time is written only by initialization and only when
\* none is stored; once stored it never changes until it is cleared, and when
\* an initialization ends this.meetupStartTime equals the stored value.
C5_StartTimeWrittenOnce ==
  [][ /\ (storage # Absent /\ storage' # Absent => storage' = storage)
      /\ (storage = Absent /\ storage' # Absent => lastEvent'.op = "init")
      /\ (lastEvent'.op = "init" =>
             storage' # Absent /\ meetupStartTime' = storage') ]_vars

C5_Witness ==
  /\ lastEvent.op = "init"
  /\ storage # Absent
  /\ storage < now
  /\ meetupStartTime = storage

\* C6: after the stored start time has been cleared, the next connect or
\* broadcast establishes a fresh start time, the time of that request, in
\* memory and in storage.
C6_NextInteractionReinitializes ==
  [][(storage = Absent /\ lastEvent'.op \in {"connect", "broadcast"})
     => (storage' = now' /\ meetupStartTime' = now')]_vars

\* C7: every connect, disconnect and broadcast sets lastActivity to the
\* current time.
C7_InboundEventsUpdateLastActivity ==
  [][lastEvent'.op \in {"connect", "close", "broadcast"}
     => lastActivity' = now']_vars

\* C8 (as claimed): every connect, every disconnect and every alarm that does
\* not end the session schedules the alarm one period after the current time.
C8_EveryConnectionEventSchedules ==
  [][(\/ lastEvent'.op \in {"connect", "close"}
      \/ (lastEvent'.op = "alarm" /\ ~lastEvent'.ended))
     => alarms' = {now' + AlarmPeriod}]_vars

\* C8 (amended): every connect, every disconnect whose handler counts zero
\* sockets and every alarm that does not end the session schedules the alarm
\* one period after the current time; a disconnect whose handler counts a
\* socket leaves the alarm as it was.
C8_SchedulesOnConnectEmptyCloseAndAlarm ==
  [][ /\ (lastEvent'.op = "connect" => alarms' = {now' + AlarmPeriod})
      /\ (lastEvent'.op = "alarm" /\ ~lastEvent'.ended
            => alarms' = {now' + AlarmPeriod})
      /\ (lastEvent'.op = "close" /\ lastEvent'.count = 0
            => alarms' = {now' + AlarmPeriod})
      /\ (lastEvent'.op = "close" /\ lastEvent'.count # 0
            => alarms' = alarms) ]_vars

C8_Witness ==
  /\ lastEvent.op = "close"
  /\ lastEvent.count # 0
  /\ sockets # {}
  /\ alarms # {now + AlarmPeriod}

\* C9 (as claimed): after a disconnect that leaves no socket, an alarm is
\* pending that fires sooner than one period after the disconnect.
C9_EmptyCloseSchedulesSooner ==
  (lastEvent.op = "close" /\ sockets = {})
     => \E t \in alarms : t < now + AlarmPeriod

\* C9 (amended): after a disconnect that leaves no socket exactly one alarm is
\* pending, at most one period after the disconnect; when the handler counted
\* zero sockets it is the alarm it scheduled, exactly one full period after
\* the disconnect, not sooner.
C9_EmptyCloseSchedulesFullPeriod ==
  (lastEvent.op = "close" /\ sockets = {}) =>
     /\ Cardinality(alarms) = 1
     /\ \A t \in alarms : t <= now + AlarmPeriod
     /\ (lastEvent.count = 0 => alarms = {now + AlarmPeriod})

C9_Witness ==
  /\ lastEvent.op = "close"
  /\ sockets = {}
  /\ lastEvent.count = 0
  /\ alarms = {now + AlarmPeriod}
  /\ lastInbound = now
  /\ storage < now

\* C10: at most one alarm is pending in every reachable state.
C10_AtMostOneAlarm == Cardinality(alarms) <= 1

C10_Witness ==
  /\ lastEvent.op = "connect"
  /\ lastEvent.count = 2
  /\ storage < now
  /\ alarms = {now + AlarmPeriod}

\* the steps that are handlers of the instance
HandlerOps ==
  {"connect", "fetch", "message", "close", "error", "broadcast", "badrequest", "alarm"}

\* C11: accepting a connection adds the socket to the listed set and sends
\* one connected message, to the new socket only, carrying the size of the
\* set with the new socket in it; when that send throws nothing is delivered,
\* and the socket is registered and the alarm scheduled all the same.
C11_ConnectAcknowledgesNewSocketOnly ==
  lastEvent.op = "connect" =>
    /\ lastEvent.ws \in sockets
    /\ lastEvent.count = Cardinality(sockets)
    /\ lastEvent.msg = "connected"
    /\ \A h \in Handles :
         lastEvent.sent[h] =
           IF h = lastEvent.ws /\ h \notin lastEvent.throws THEN 1 ELSE 0
    /\ alarms = {now + AlarmPeriod}

C11_Witness ==
  /\ lastEvent.op = "connect"
  /\ lastEvent.count = 2
  /\ lastEvent.throws = {lastEvent.ws}
  /\ storage < now

\* C12: every handler step starts from an instance whose initialization has
\* ended, with this.meetupStartTime equal to the stored start time whenever
\* one is stored: never from the constructor's provisional value.
C12_HandlersSeeInitializedState ==
  [][lastEvent'.op \in HandlerOps =>
       /\ inst = "ready"
       /\ (storage # Absent => meetupStartTime = storage)]_vars

C12_Witness ==
  /\ lastEvent.op = "alarm"
  /\ lastEvent.idle = 0
  /\ lastInbound < now
  /\ sockets = {}
  /\ storage # Absent
  /\ storage < now
  /\ meetupStartTime = storage

\* C13: broadcast requests take effect in the order they arrived: no socket
\* that stayed connected is sent the message of a request after the message
\* of a request that arrived later.
C13_BroadcastsInArrivalOrder == outOfOrder = {}

\* C14: a route verifies, then persists, then broadcasts: a request whose
\* token is missing or does not verify, or whose UserModel call fails, is
\* answered with an error status, and a request answered with an error status
\* has left the users table as it found it and has notified nobody.
C14_VerifyThenPersistThenBroadcast ==
  /\ \E n \in 0..3 : req.steps = SubSeq(<<"verify", "persist", "broadcast">>, 1, n)
  /\ (req.pc = "done" /\ req.status # 200) =>
        /\ req.status \in {400, 500}
        /\ users = req.before
        /\ req.notified = ""
  /\ (req.pc = "done" /\ (req.token = NoToken \/ ~decodeAndVerifyJWT(req.token)
                           \/ req.persistFailed)) => req.status # 200
  /\ users # req.before => Len(req.steps) >= 2
  /\ req.notified # "" => Len(req.steps) = 3

C14_Witness ==
  /\ req.pc = "done" /\ req.status = 500
  /\ decodeAndVerifyJWT(req.token) /\ req.persistFailed
  /\ req.steps = <<"verify">>
  /\ req.route = "remove-user" /\ users[req.did] # NoUser

\* C15: the row a request writes or removes is the row of the key that
\* signed its token.
C15_RecordsKeyedByIssuer ==
  \A d \in DIDs : users[d] # req.before[d] => d = req.token.iss /\ d = req.token.signer

\* C16: once verification and persistence have succeeded the request is
\* answered 200 with the body of the route, and the table holds the persisted
\* change, whether or not the notification of the coordinator failed.
C16_NotifyFailureInvisible ==
  (req.pc = "done" /\ Len(req.steps) >= 2) =>
     /\ req.status = 200
     /\ users = persist(req.route, req.before, req.did)
     /\ req.body = routeBody(req.route, persist(req.route, req.before, req.did),
                             req.did)

C16_Witness ==
  /\ req.pc = "done" /\ req.notifyFailed
  /\ req.steps = <<"verify", "persist", "broadcast">>
  /\ req.notified = "" /\ req.status = 200
  /\ users # req.before

\* C17: an alarm that does not end the session schedules the next alarm one
\* period ahead and leaves lastActivity, the start time in memory and in
\* storage and the listed sockets as they were, sending nothing.
C17_QuietAlarmOnlyReschedules ==
  [][(lastEvent'.op = "alarm" /\ ~lastEvent'.ended) =>
       /\ alarms' = {now' + AlarmPeriod}
       /\ lastActivity' = lastActivity
       /\ meetupStartTime' = meetupStartTime
       /\ storage' = storage
       /\ sockets' = sockets
       /\ lastEvent'.sent = NoSends
       /\ lastEvent'.msg = ""]_vars

C17_Witness ==
  /\ lastEvent.op = "alarm"
  /\ ~lastEvent.ended
  /\ sockets # {}
  /\ lastEvent.idle > IdleThreshold
  /\ alarms = {now + AlarmPeriod}

\* C18: meetup-ended is broadcast only when no socket is listed: no socket
\* ever receives it, and the step that ends the session removes no socket.
C18_MeetupEndedReachesNobody ==
  [][lastEvent'.msg = "meetup-ended" =>
       /\ sockets = {}
       /\ sockets' = sockets
       /\ lastEvent'.count = 0
       /\ lastEvent'.sent = NoSends]_vars

C18_Witness ==
  /\ lastEvent.op = "alarm"
  /\ lastEvent.ended
  /\ lastEvent.msg = "meetup-ended"
  /\ storage = Absent

\* C19: whenever a socket is listed an alarm is pending.
C19_ConnectedSessionHasAlarm == sockets # {} => alarms # {}

C19_Witness ==
  /\ sockets # {}
  /\ inst = "evicted"
  /\ now > lastInbound + AlarmPeriod
  /\ alarms # {}

\* C20: a broadcast leaves the listed sockets, the alarm and the storage as
\* they were; a socket whose send threw stays listed, and every listed socket
\* is attempted by the broadcast.
C20_BroadcastChangesNothing ==
  [][lastEvent'.op = "broadcast" =>
       /\ sockets' = sockets
       /\ alarms' = alarms
       /\ storage' = storage
       /\ lastEvent'.throws \subseteq sockets'
       /\ lastEvent'.count = Cardinality(sockets')
       /\ \A h \in sockets' : lastEvent'.sent[h] = 1 \/ h \in lastEvent'.throws]_vars

C20_Witness ==
  /\ lastEvent.op = "broadcast"
  /\ lastEvent.throws # {}
  /\ lastEvent.throws \subseteq sockets
  /\ alarms # {}
  /\ storage # Absent

====
